---- MODULE Spec2Model ----
(***************************************************************************)
(* Model of sempy_labs' Direct Lake connection remapper                    *)
(* (UpdateDirectLakeModelLakehouseConnection.py) and of the mounted data   *)
(* factory wrappers (_mounted_data_factories.py).  One call of one of the  *)
(* four functions is executed per behaviour, statement by statement.       *)
(***************************************************************************)
EXTENDS Integers, Sequences, FiniteSets, TLC

\* ---------------------------------------------------------------- bounds
MaxParts == 2        \* partitions of the semantic model
MaxPages == 2        \* pages returned by the paginated request
MaxPageLen == 2      \* items in one page
MaxBundle == 3       \* parts in a definition bundle

\* ------------------------------------------------------------ vocabulary
None == "None"
SeqsUpTo(S, n) == UNION {[1..k -> S] : k \in 0..n}

\* ambient context: fabric.get_workspace_id() / fabric.get_lakehouse_id()
AmbientWorkspace == "W1"
AttachedLakehouse == "L1"
Workspaces == {"W1", "W2"}
Lakehouses == {"L1", "L2"}
Modes == {"Import", "DirectLake"}

\* fabric.list_items(workspace, type='Lakehouse')['Display Name']
LakehouseItems(ws) == IF ws = "W1" THEN {"L1"} ELSE {"L2"}

\* the value of an expression of the model: what it points to
NoExpr == [lh |-> None, ws |-> None]
PriorExpr == [lh |-> "L0", ws |-> "W0"]
\* get_shared_expression(lakehouse, lakehouse_workspace), when it returns
SharedExpression(lh, ws) == [lh |-> lh, ws |-> ws]

\* ---------------------------------------------- mounted data factories
Get(v, k) == IF k \in DOMAIN v THEN v[k] ELSE None
Items ==
  { [displayName |-> "DF1", id |-> "id1", description |-> "d1"],
    [displayName |-> "DF2", id |-> "id2"],
    [id |-> "id3", description |-> "d3"] }
\* one page of the paginated response; the 'value' key may be absent
PagesSet ==
  {[value |-> s] : s \in SeqsUpTo(Items, MaxPageLen)}
     \cup {[continuationToken |-> None]}
PageValue(r) == IF "value" \in DOMAIN r THEN r.value ELSE <<>>
NewData(v) ==
  [name |-> Get(v, "displayName"), id |-> Get(v, "id"),
   description |-> Get(v, "description")]

path == "mountedDataFactory-content.json"
Paths == {path, "other.json"}
Payloads == {"eyJhIjogMX0=", "eyJiIjogMn0="}
PartsSet == [path : Paths, payload : Payloads]
_decode_b64(p) == IF p = "eyJhIjogMX0=" THEN "{\"a\": 1}" ELSE "{\"b\": 2}"
json_loads(s) == IF s = "{\"a\": 1}" THEN [key |-> "a", val |-> 1]
                 ELSE [key |-> "b", val |-> 2]
NoResult == [key |-> None, val |-> 0]

\* ------------------------------------------------------------------ state
VARIABLES
  op,                  \* the function being called
  pc,                  \* position in it
  outcome,             \* "running", "returned" or "raised"
  exc,                 \* the exception that propagated, or None
  printed,             \* messages printed so far
  \* update_direct_lake_model_lakehouse_connection: arguments as passed
  argWorkspace, argLakehouse, argLakehouseWorkspace,
  \* ... and its locals
  workspace, lakehouse, lakehouse_workspace, shEx,
  \* the semantic model on the service
  dfP,                 \* modes of its partitions
  hasDatabaseQuery,    \* does the 'DatabaseQuery' expression exist
  serverExpr,          \* committed value of that expression
  \* the read/write connection (tom)
  conn,                \* "none", "open" or "released"
  tomExpr,             \* value of the expression in the connection's copy
  opens, writes, commits,
  \* list_mounted_data_factories
  responses, df, pi, vi,
  \* get_mounted_data_factory_definition
  parts, gi, result,
  \* delete_mounted_data_factory
  resolved, deleteCalls

updVars == <<argWorkspace, argLakehouse, argLakehouseWorkspace, workspace,
             lakehouse, lakehouse_workspace, shEx, dfP, hasDatabaseQuery,
             serverExpr, conn, tomExpr, opens, writes, commits>>
listVars == <<responses, df, pi, vi>>
getVars == <<parts, gi, result>>
delVars == <<resolved, deleteCalls>>
ctlVars == <<op, pc, outcome, exc, printed>>
vars == <<ctlVars, updVars, listVars, getVars, delVars>>

InitUpdate ==
  /\ argWorkspace \in Workspaces \cup {None}
  /\ argLakehouse \in Lakehouses \cup {None}
  /\ argLakehouseWorkspace \in Workspaces \cup {None}
  /\ workspace = argWorkspace
  /\ lakehouse = argLakehouse
  /\ lakehouse_workspace = argLakehouseWorkspace
  /\ shEx = NoExpr
  /\ dfP \in SeqsUpTo(Modes, MaxParts)
  /\ hasDatabaseQuery \in BOOLEAN
  /\ serverExpr = IF hasDatabaseQuery THEN PriorExpr ELSE NoExpr
  /\ conn = "none" /\ tomExpr = NoExpr
  /\ opens = 0 /\ writes = 0 /\ commits = 0
IdleUpdate ==
  /\ argWorkspace = None /\ argLakehouse = None
  /\ argLakehouseWorkspace = None
  /\ workspace = None /\ lakehouse = None /\ lakehouse_workspace = None
  /\ shEx = NoExpr /\ dfP = <<>> /\ hasDatabaseQuery = TRUE
  /\ serverExpr = PriorExpr /\ conn = "none" /\ tomExpr = NoExpr
  /\ opens = 0 /\ writes = 0 /\ commits = 0
InitList == responses \in SeqsUpTo(PagesSet, MaxPages)
               /\ df = <<>> /\ pi = 1 /\ vi = 1
IdleList == responses = <<>> /\ df = <<>> /\ pi = 1 /\ vi = 1
InitGet == parts \in SeqsUpTo(PartsSet, MaxBundle) /\ gi = 1
              /\ result = NoResult
IdleGet == parts = <<>> /\ gi = 1 /\ result = NoResult
InitDelete == resolved = FALSE /\ deleteCalls = 0

Init ==
  /\ outcome = "running" /\ exc = None /\ printed = <<>>
  /\ InitDelete
  /\ \/ op = "update" /\ pc = "u_workspace"
        /\ InitUpdate /\ IdleList /\ IdleGet
     \/ op = "list" /\ pc = "l_request"
        /\ IdleUpdate /\ InitList /\ IdleGet
     \/ op = "getdef" /\ pc = "g_request"
        /\ IdleUpdate /\ IdleList /\ InitGet
     \/ op = "delete" /\ pc = "d_resolve"
        /\ IdleUpdate /\ IdleList /\ IdleGet

Return == pc' = "done" /\ outcome' = "returned" /\ exc' = exc
Raise(e) == pc' = "done" /\ outcome' = "raised" /\ exc' = e
Goto(l) == pc' = l /\ UNCHANGED <<outcome, exc>>
Emit(m) == printed' = Append(printed, m)

\* ------------------------- update_direct_lake_model_lakehouse_connection
ResolveWorkspace ==
  /\ op = "update" /\ pc = "u_workspace"
  /\ workspace' = IF workspace = None THEN AmbientWorkspace ELSE workspace
  /\ Goto("u_lakehouse_workspace")
  /\ UNCHANGED <<op, printed, argWorkspace, argLakehouse,
                 argLakehouseWorkspace, lakehouse, lakehouse_workspace, shEx,
                 dfP, hasDatabaseQuery, serverExpr, conn, tomExpr, opens,
                 writes, commits, listVars, getVars, delVars>>

DefaultLakehouseWorkspace ==
  /\ op = "update" /\ pc = "u_lakehouse_workspace"
  /\ lakehouse_workspace' =
       IF lakehouse_workspace = None THEN workspace ELSE lakehouse_workspace
  /\ Goto("u_lakehouse")
  /\ UNCHANGED <<op, printed, argWorkspace, argLakehouse,
                 argLakehouseWorkspace, workspace, lakehouse, shEx,
                 dfP, hasDatabaseQuery, serverExpr, conn, tomExpr, opens,
                 writes, commits, listVars, getVars, delVars>>

DefaultLakehouse ==
  /\ op = "update" /\ pc = "u_lakehouse"
  /\ lakehouse' = IF lakehouse = None THEN AttachedLakehouse ELSE lakehouse
  /\ Goto("u_check_lakehouse")
  /\ UNCHANGED <<op, printed, argWorkspace, argLakehouse,
                 argLakehouseWorkspace, workspace, lakehouse_workspace, shEx,
                 dfP, hasDatabaseQuery, serverExpr, conn, tomExpr, opens,
                 writes, commits, listVars, getVars, delVars>>

\* a failed validation that ends the call instead of going on
CheckLakehouseStops ==
  /\ op = "update" /\ pc = "u_check_lakehouse"
  /\ IF lakehouse \notin LakehouseItems(lakehouse_workspace)
       THEN Emit("lakehouse_missing") /\ Return
       ELSE UNCHANGED printed /\ Goto("u_partitions")
  /\ UNCHANGED <<op, updVars, listVars, getVars, delVars>>

CheckLakehouse ==
  /\ op = "update" /\ pc = "u_check_lakehouse"
  /\ IF lakehouse \notin LakehouseItems(lakehouse_workspace)
       THEN Emit("lakehouse_missing")
       ELSE UNCHANGED printed
  /\ Goto("u_partitions")
  /\ UNCHANGED <<op, updVars, listVars, getVars, delVars>>

dfP_filt == SelectSeq(dfP, LAMBDA m : m = "DirectLake")

\* a partition check that opens the connection whatever the mode
CheckPartitionsAlwaysConnects ==
  /\ op = "update" /\ pc = "u_partitions"
  /\ IF Len(dfP_filt) = 0
       THEN Emit("not_direct_lake") /\ Goto("u_connect")
       ELSE UNCHANGED printed /\ Goto("u_connect")
  /\ UNCHANGED <<op, updVars, listVars, getVars, delVars>>

CheckPartitions ==
  /\ op = "update" /\ pc = "u_partitions"
  /\ IF Len(dfP_filt) = 0
       THEN Emit("not_direct_lake") /\ Return
       ELSE UNCHANGED printed /\ Goto("u_connect")
  /\ UNCHANGED <<op, updVars, listVars, getVars, delVars>>

Connect ==
  /\ op = "update" /\ pc = "u_connect"
  /\ conn' = "open" /\ opens' = opens + 1 /\ tomExpr' = serverExpr
  /\ Goto("u_shared_expression")
  /\ UNCHANGED <<op, printed, argWorkspace, argLakehouse,
                 argLakehouseWorkspace, workspace, lakehouse,
                 lakehouse_workspace, shEx, dfP, hasDatabaseQuery,
                 serverExpr, writes, commits, listVars, getVars, delVars>>

\* get_shared_expression raising as if it were called outside the scope
GetSharedExpressionUnscoped ==
  /\ op = "update" /\ pc = "u_shared_expression"
  /\ \/ /\ shEx' = SharedExpression(lakehouse, lakehouse_workspace)
        /\ Goto("u_assign")
     \/ /\ shEx' = shEx
        /\ Raise("SharedExpressionError")
  /\ UNCHANGED <<op, printed, argWorkspace, argLakehouse,
                 argLakehouseWorkspace, workspace, lakehouse,
                 lakehouse_workspace, dfP, hasDatabaseQuery, serverExpr,
                 conn, tomExpr, opens, writes, commits,
                 listVars, getVars, delVars>>

GetSharedExpression ==
  /\ op = "update" /\ pc = "u_shared_expression"
  /\ \/ /\ shEx' = SharedExpression(lakehouse, lakehouse_workspace)
        /\ Goto("u_assign")
     \/ \* it raises: the exception leaves the with block
        /\ shEx' = shEx
        /\ pc' = "u_exit" /\ exc' = "SharedExpressionError"
        /\ outcome' = outcome
  /\ UNCHANGED <<op, printed, argWorkspace, argLakehouse,
                 argLakehouseWorkspace, workspace, lakehouse,
                 lakehouse_workspace, dfP, hasDatabaseQuery, serverExpr,
                 conn, tomExpr, opens, writes, commits,
                 listVars, getVars, delVars>>

\* an assignment that reaches the service at once
AssignExpressionDirect ==
  /\ op = "update" /\ pc = "u_assign"
  /\ IF hasDatabaseQuery
       THEN /\ tomExpr' = shEx /\ serverExpr' = shEx /\ writes' = writes + 1
            /\ Emit("updated")
       ELSE /\ UNCHANGED <<tomExpr, serverExpr, writes>>
            /\ Emit("error_not_updated")
  /\ Goto("u_exit")
  /\ UNCHANGED <<op, argWorkspace, argLakehouse,
                 argLakehouseWorkspace, workspace, lakehouse,
                 lakehouse_workspace, shEx, dfP, hasDatabaseQuery,
                 conn, opens, commits, listVars, getVars, delVars>>

AssignExpression ==
  /\ op = "update" /\ pc = "u_assign"
  /\ IF hasDatabaseQuery
       THEN /\ tomExpr' = shEx /\ writes' = writes + 1
            /\ Emit("updated")
       ELSE \* Expressions['DatabaseQuery'] raises, the except clause runs
            /\ UNCHANGED <<tomExpr, writes>>
            /\ Emit("error_not_updated")
  /\ Goto("u_exit")
  /\ UNCHANGED <<op, argWorkspace, argLakehouse,
                 argLakehouseWorkspace, workspace, lakehouse,
                 lakehouse_workspace, shEx, dfP, hasDatabaseQuery,
                 serverExpr, conn, opens, commits,
                 listVars, getVars, delVars>>

\* the end of the with block: the connection commits or discards, and is
\* released; a failing commit changes nothing on the service and raises
ExitConnection ==
  /\ op = "update" /\ pc = "u_exit"
  /\ conn' = "released"
  /\ IF exc # None
       THEN /\ UNCHANGED <<serverExpr, commits>>
            /\ Raise(exc)
       ELSE \/ /\ serverExpr' = tomExpr /\ commits' = commits + 1
               /\ Return
            \/ /\ UNCHANGED <<serverExpr, commits>>
               /\ Raise("CommitError")
  /\ UNCHANGED <<op, printed, argWorkspace, argLakehouse,
                 argLakehouseWorkspace, workspace, lakehouse,
                 lakehouse_workspace, shEx, dfP, hasDatabaseQuery,
                 tomExpr, opens, writes, listVars, getVars, delVars>>

\* -------------------------------------------- list_mounted_data_factories
ListRequest ==
  /\ op = "list" /\ pc = "l_request"
  /\ df' = <<>> /\ pi' = 1 /\ vi' = 1
  /\ Goto("l_loop")
  /\ UNCHANGED <<op, printed, responses, updVars, getVars, delVars>>

\* a loop body that keeps one row per distinct item
ListAppendDistinct ==
  /\ op = "list" /\ pc = "l_loop"
  /\ pi <= Len(responses) /\ vi <= Len(PageValue(responses[pi]))
  /\ LET r == NewData(PageValue(responses[pi])[vi])
     IN df' = IF \E i \in 1..Len(df) : df[i] = r THEN df ELSE Append(df, r)
  /\ vi' = vi + 1
  /\ UNCHANGED <<ctlVars, responses, pi, updVars, getVars, delVars>>

ListAppend ==
  /\ op = "list" /\ pc = "l_loop"
  /\ pi <= Len(responses) /\ vi <= Len(PageValue(responses[pi]))
  /\ df' = Append(df, NewData(PageValue(responses[pi])[vi]))
  /\ vi' = vi + 1
  /\ UNCHANGED <<ctlVars, responses, pi, updVars, getVars, delVars>>

ListNextPage ==
  /\ op = "list" /\ pc = "l_loop"
  /\ pi <= Len(responses) /\ vi > Len(PageValue(responses[pi]))
  /\ pi' = pi + 1 /\ vi' = 1
  /\ UNCHANGED <<ctlVars, responses, df, updVars, getVars, delVars>>

ListReturn ==
  /\ op = "list" /\ pc = "l_loop"
  /\ pi > Len(responses)
  /\ Return
  /\ UNCHANGED <<op, printed, listVars, updVars, getVars, delVars>>

\* ------------------------------------ get_mounted_data_factory_definition
GetDefinitionRequest ==
  /\ op = "getdef" /\ pc = "g_request"
  /\ gi' = 1 /\ Goto("g_next")
  /\ UNCHANGED <<op, printed, parts, result, updVars, listVars, delVars>>

\* the generator inside next(): parts are tried in order
NextSkip ==
  /\ op = "getdef" /\ pc = "g_next"
  /\ gi <= Len(parts) /\ parts[gi].path # path
  /\ gi' = gi + 1
  /\ UNCHANGED <<ctlVars, parts, result, updVars, listVars, delVars>>

NextFound ==
  /\ op = "getdef" /\ pc = "g_next"
  /\ gi <= Len(parts) /\ parts[gi].path = path
  /\ result' = json_loads(_decode_b64(parts[gi].payload))
  /\ Return
  /\ UNCHANGED <<op, printed, parts, gi, updVars, listVars, delVars>>

\* next() without a default on an exhausted generator
NextExhausted ==
  /\ op = "getdef" /\ pc = "g_next"
  /\ gi > Len(parts)
  /\ Raise("StopIteration")
  /\ UNCHANGED <<op, printed, getVars, updVars, listVars, delVars>>

\* -------------------------------------------- delete_mounted_data_factory
ResolveItem ==
  /\ op = "delete" /\ pc = "d_resolve"
  /\ \/ resolved' = TRUE /\ Goto("d_delete")
     \/ resolved' = resolved /\ Raise("ResolveError")
  /\ UNCHANGED <<op, printed, deleteCalls, updVars, listVars, getVars>>

\* a deletion whose failure is swallowed
DeleteItemSwallows ==
  /\ op = "delete" /\ pc = "d_delete"
  /\ deleteCalls' = deleteCalls + 1
  /\ \/ Goto("d_print")
     \/ exc' = "DeleteError" /\ pc' = "d_print" /\ outcome' = outcome
  /\ UNCHANGED <<op, printed, resolved, updVars, listVars, getVars>>

DeleteItem ==
  /\ op = "delete" /\ pc = "d_delete"
  /\ deleteCalls' = deleteCalls + 1
  /\ \/ Goto("d_print")
     \/ Raise("DeleteError")
  /\ UNCHANGED <<op, printed, resolved, updVars, listVars, getVars>>

ReportSuccess ==
  /\ op = "delete" /\ pc = "d_print"
  /\ Emit("deleted")
  /\ Return
  /\ UNCHANGED <<op, delVars, updVars, listVars, getVars>>

\* ---------------------------------------------------------- specification
Next ==
  \/ ResolveWorkspace \/ DefaultLakehouseWorkspace \/ DefaultLakehouse
  \/ CheckLakehouse \/ CheckPartitions \/ Connect \/ GetSharedExpression
  \/ AssignExpression \/ ExitConnection
  \/ ListRequest \/ ListAppend \/ ListNextPage \/ ListReturn
  \/ GetDefinitionRequest \/ NextSkip \/ NextFound \/ NextExhausted
  \/ ResolveItem \/ DeleteItem \/ ReportSuccess

Spec == Init /\ [][Next]_vars

\* ------------------------------------------------------------ properties
Said(m) == \E i \in 1..Len(printed) : printed[i] = m
Count(m) == Cardinality({i \in 1..Len(printed) : printed[i] = m})
InitialExpr == IF hasDatabaseQuery THEN PriorExpr ELSE NoExpr
IsDirectLake == \E i \in 1..Len(dfP) : dfP[i] = "DirectLake"
LakehouseResolved ==
  pc \notin {"u_workspace", "u_lakehouse_workspace", "u_lakehouse"}

\* C1: on a model with no partition in 'DirectLake' mode the remap never
\* opens the read/write connection, never writes or commits the
\* 'DatabaseQuery' expression, and ends by returning after reporting the
\* not-Direct-Lake mismatch once, whatever the other arguments are.
C1_NotDirectLakeIsNoOp ==
  (op = "update" /\ ~IsDirectLake) =>
     /\ conn = "none" /\ opens = 0 /\ writes = 0 /\ commits = 0
     /\ tomExpr = NoExpr /\ serverExpr = InitialExpr
     /\ ~Said("updated") /\ ~Said("error_not_updated")
     /\ pc = "done" =>
          outcome = "returned" /\ Count("not_direct_lake") = 1
C1_Witness ==
  /\ op = "update" /\ pc = "done" /\ ~IsDirectLake /\ Len(dfP) = MaxParts
  /\ argWorkspace = "W2" /\ argLakehouse = "L1"
  /\ argLakehouseWorkspace = None /\ Said("not_direct_lake")

\* C2: on a Direct Lake model the remap writes the expression at most once;
\* the service's committed expression is either the prior one or the new
\* one, and it is the new one only after the single write was committed;
\* the call ends either returned with one write and one commit of the new
\* expression, or with the prior expression unchanged.
C2_OneCommittedWriteOrUnchanged ==
  (op = "update" /\ IsDirectLake) =>
     /\ writes <= 1 /\ commits <= 1
     /\ serverExpr \in {InitialExpr, shEx}
     /\ serverExpr # InitialExpr => (writes = 1 /\ commits = 1)
     /\ pc = "done" =>
          \/ /\ outcome = "returned" /\ writes = 1 /\ commits = 1
             /\ serverExpr = SharedExpression(lakehouse, lakehouse_workspace)
          \/ serverExpr = InitialExpr
C2_Witness ==
  /\ op = "update" /\ pc = "done" /\ IsDirectLake
  /\ writes = 1 /\ commits = 0 /\ exc = "CommitError"
  /\ serverExpr = PriorExpr /\ tomExpr # PriorExpr

\* C3: the call never ends with the connection it opened still open, and
\* once past the with block every opened connection has been released, also
\* when get_shared_expression or the assignment raised inside the block.
C3_ConnectionReleased ==
  /\ pc = "done" => conn # "open"
  /\ (op = "update" /\ pc = "done" /\ opens > 0) => conn = "released"
  /\ conn = "open" =>
       pc \in {"u_shared_expression", "u_assign", "u_exit"}
C3_Witness ==
  /\ op = "update" /\ pc = "done" /\ opens = 1 /\ conn = "released"
  /\ outcome = "raised" /\ exc = "SharedExpressionError"

\* C4: on a Direct Lake model, if the 'DatabaseQuery' expression does not
\* exist or the commit fails, the call prints the generic ERROR message and
\* returns: no exception propagates.
C4_FailureSwallowed ==
  (/\ op = "update" /\ pc = "done" /\ IsDirectLake
   /\ exc # "SharedExpressionError"
   /\ (~hasDatabaseQuery \/ exc = "CommitError")) =>
     (outcome = "returned" /\ Said("error_not_updated"))

\* C5: the listing returns one row per item of the pages, in page order and
\* within-page order, N rows for N items, pages without 'value' or with an
\* empty one adding nothing.
RECURSIVE Flatten(_)
Flatten(rs) ==
  IF rs = <<>> THEN <<>>
  ELSE (IF "value" \in DOMAIN Head(rs) THEN Head(rs).value ELSE <<>>)
         \o Flatten(Tail(rs))
RECURSIVE TotalItems(_)
TotalItems(rs) ==
  IF rs = <<>> THEN 0
  ELSE (IF "value" \in DOMAIN Head(rs) THEN Len(Head(rs).value) ELSE 0)
         + TotalItems(Tail(rs))
Field(v, k) == IF k \in DOMAIN v THEN v[k] ELSE None
C5_ListReturnsEveryItemInOrder ==
  (op = "list" /\ pc = "done") =>
     /\ outcome = "returned"
     /\ Len(df) = TotalItems(responses)
     /\ \A i \in 1..Len(df) :
          LET v == Flatten(responses)[i]
          IN /\ df[i].name = Field(v, "displayName")
             /\ df[i].id = Field(v, "id")
             /\ df[i].description = Field(v, "description")
C5_Witness ==
  /\ op = "list" /\ pc = "done" /\ Len(responses) >= 2
  /\ "value" \in DOMAIN responses[1] /\ Len(responses[1].value) > 0
  /\ "value" \in DOMAIN responses[2] /\ Len(responses[2].value) > 0
  /\ responses[2].value[1] = responses[1].value[1]
  /\ Len(df) >= 2
  /\ \E i, j \in 1..Len(df) : i < j /\ df[i] = df[j]

\* C6: with a part of path 'mountedDataFactory-content.json' in the bundle
\* the call returns the decoded, parsed payload of the first such part;
\* without one it fails with a NotFound-style error.
NotFoundStyle == {"NotFound", "KeyError", "LookupError", "ValueError"}
Matching == {i \in 1..Len(parts) : parts[i].path = path}
C6_DefinitionOrNotFound ==
  (op = "getdef" /\ pc = "done") =>
     IF Matching # {}
       THEN LET first == CHOOSE i \in Matching : \A j \in Matching : i <= j
            IN /\ outcome = "returned"
               /\ result = json_loads(_decode_b64(parts[first].payload))
       ELSE outcome = "raised" /\ exc \in NotFoundStyle

\* C7: a deletion call is issued at most once and only after the item was
\* resolved, exactly once when it was; 'deleted' is printed only after that
\* call returned; when resolution or the call fails nothing is printed and
\* the exception reaches the caller.
C7_DeleteOnceReportOnSuccess ==
  op = "delete" =>
     /\ deleteCalls <= 1
     /\ deleteCalls = 1 => resolved
     /\ Said("deleted") => (deleteCalls = 1 /\ exc = None)
     /\ pc = "done" =>
          /\ resolved => deleteCalls = 1
          /\ outcome = "returned" =>
               (printed = <<"deleted">> /\ exc = None /\ deleteCalls = 1)
          /\ outcome = "raised" =>
               (printed = <<>> /\ exc \in {"ResolveError", "DeleteError"})
          /\ exc # None => outcome = "raised"
C7_Witness ==
  /\ op = "delete" /\ pc = "done" /\ resolved /\ deleteCalls = 1
  /\ outcome = "raised" /\ exc = "DeleteError" /\ printed = <<>>

\* C8: an omitted lakehouse_workspace resolves to the ambient workspace (of
\* the attached lakehouse or of the notebook), whatever workspace was
\* passed, and that is the workspace used from then on.
C8_LakehouseWorkspaceDefaultsToAmbient ==
  (/\ op = "update" /\ argLakehouseWorkspace = None
   /\ pc \notin {"u_workspace", "u_lakehouse_workspace"}) =>
     lakehouse_workspace = AmbientWorkspace

\* C9: when the lakehouse is not among the Lakehouse items of
\* lakehouse_workspace the call prints 'does not exist' once and goes on:
\* the partitions are still checked, a Direct Lake model still gets its
\* connection opened, and the expression built from that lakehouse is
\* written to it whenever get_shared_expression returns and 'DatabaseQuery'
\* exists; the validation itself raises nothing.
C9_MissingLakehouseContinues ==
  (/\ op = "update" /\ LakehouseResolved
   /\ lakehouse \notin LakehouseItems(lakehouse_workspace)) =>
     /\ pc # "u_check_lakehouse" => Count("lakehouse_missing") = 1
     /\ pc = "done" =>
          /\ ~IsDirectLake => (Said("not_direct_lake") /\ opens = 0)
          /\ IsDirectLake =>
               /\ opens = 1
               /\ exc # "SharedExpressionError" =>
                    /\ shEx = SharedExpression(lakehouse, lakehouse_workspace)
                    /\ hasDatabaseQuery => (writes = 1 /\ tomExpr = shEx)
          /\ outcome = "raised" =>
               exc \in {"SharedExpressionError", "CommitError"}
C9_Witness ==
  /\ op = "update" /\ pc = "done" /\ outcome = "returned"
  /\ lakehouse = "L2" /\ lakehouse_workspace = "W1"
  /\ Said("lakehouse_missing") /\ IsDirectLake /\ writes = 1
  /\ serverExpr = [lh |-> "L2", ws |-> "W1"]

\* C10: whenever the 'has been updated' message was printed, the call ends
\* with the new expression committed to the semantic model.
C10_SuccessMessageMeansCommitted ==
  (op = "update" /\ pc = "done" /\ Said("updated")) =>
     (commits = 1 /\ serverExpr = shEx /\ outcome = "returned")
====
